---- MODULE Spec2Model ----
(***************************************************************************)
(* A model of kernel_config.py: the KConfig line parser (KConfig) and the  *)
(* kernel configuration value resolver and emitter (KernelDict and         *)
(* LinuxKernelConfigParameter).                                            *)
(*                                                                         *)
(* Python strings are TLA+ strings; a character is a string of length 1.   *)
(* Python dicts are functions whose domain is the set of keys.  An object  *)
(* attribute that may be missing is modelled by a has_<attr> flag or by    *)
(* the domain of a function.  A raised exception is the name of its class; *)
(* "" means that nothing was raised.                                       *)
(***************************************************************************)
EXTENDS Integers, Sequences, FiniteSets, TLC

(***************************************************************************)
(* Python str methods and the regular expressions of the source.           *)
(***************************************************************************)

\* the i-th character of s
Char(s, i) == SubSeq(s, i, i)

\* the characters for which str.isspace is true, the whitespace that str.strip,
\* str.split and \s remove: space, tab, newline, carriage return, form feed, and
\* as literal characters U+000B, U+001C to U+001F, U+0085, U+00A0 and U+1680.
\* A string of a module holds U+0001 to U+00FF and, above them, the code points
\* whose low byte is 0x80 or more; the other 16 whitespace characters (U+2000 to
\* U+200A, U+2028, U+2029, U+202F, U+205F, U+3000) are not among these.
WhitespaceChars ==
    {" ", "\t", "\n", "\r", "\f", "", "", "", "", "", "", " ", " "}

\* str.isspace for one character
IsSpace(c) == c \in WhitespaceChars

RECURSIVE lstrip(_)
lstrip(s) == IF Len(s) > 0 /\ IsSpace(Char(s, 1)) THEN lstrip(SubSeq(s, 2, Len(s))) ELSE s

RECURSIVE rstrip(_)
rstrip(s) == IF Len(s) > 0 /\ IsSpace(Char(s, Len(s))) THEN rstrip(SubSeq(s, 1, Len(s) - 1)) ELSE s

\* s.strip(c) for a single character c
RECURSIVE lstrip_char(_, _)
lstrip_char(s, c) == IF Len(s) > 0 /\ Char(s, 1) = c THEN lstrip_char(SubSeq(s, 2, Len(s)), c) ELSE s

RECURSIVE rstrip_char(_, _)
rstrip_char(s, c) == IF Len(s) > 0 /\ Char(s, Len(s)) = c THEN rstrip_char(SubSeq(s, 1, Len(s) - 1), c) ELSE s

strip_char(s, c) == rstrip_char(lstrip_char(s, c), c)

startswith(s, p) == Len(s) >= Len(p) /\ SubSeq(s, 1, Len(p)) = p

endswith(s, p) == Len(s) >= Len(p) /\ SubSeq(s, Len(s) - Len(p) + 1, Len(s)) = p

\* the positions at which sub occurs in s
Occurrences(s, sub) == {i \in 1..(Len(s) - Len(sub) + 1) : SubSeq(s, i, i + Len(sub) - 1) = sub}

\* sub in s
contains(s, sub) == Len(sub) = 0 \/ Occurrences(s, sub) # {}

Min(S) == CHOOSE x \in S : \A y \in S : x <= y

\* s.split(sep): all the pieces between the occurrences of sep
RECURSIVE split(_, _)
split(s, sep) ==
    IF Occurrences(s, sep) = {} THEN <<s>>
    ELSE LET i == Min(Occurrences(s, sep))
         IN  <<SubSeq(s, 1, i - 1)>> \o split(SubSeq(s, i + Len(sep), Len(s)), sep)

\* s.split(sep, 1): at most one cut, at the first occurrence of sep
split1(s, sep) ==
    IF Occurrences(s, sep) = {} THEN <<s>>
    ELSE LET i == Min(Occurrences(s, sep))
         IN  <<SubSeq(s, 1, i - 1), SubSeq(s, i + Len(sep), Len(s))>>

\* s.split(): the maximal runs of non-whitespace characters
RECURSIVE split_ws(_)
split_ws(s) ==
    LET t == lstrip(s)
        ends == {i \in 1..Len(t) : IsSpace(Char(t, i))}
    IN  IF Len(t) = 0 THEN <<>>
        ELSE IF ends = {} THEN <<t>>
        ELSE <<SubSeq(t, 1, Min(ends) - 1)>> \o split_ws(SubSeq(t, Min(ends), Len(t)))

\* s.replace(old, new)
RECURSIVE replace(_, _, _)
replace(s, old, new) ==
    IF Occurrences(s, old) = {} THEN s
    ELSE LET i == Min(Occurrences(s, old))
         IN  SubSeq(s, 1, i - 1) \o new \o replace(SubSeq(s, i + Len(old), Len(s)), old, new)

Lower == "abcdefghijklmnopqrstuvwxyz"
Upper == "ABCDEFGHIJKLMNOPQRSTUVWXYZ"
Digits == "0123456789"

\* the characters of ASCII from ',' (44) to 'Z' (90), in code order
AsciiCommaToZ == ",-./" \o Digits \o ":;<=>?@" \o Upper

\* the position of the one-character string c in the string t, 0 when absent
IndexIn(c, t) == IF Occurrences(t, c) = {} THEN 0 ELSE Min(Occurrences(t, c))

\* the characters of the string t
Chars(t) == {Char(t, i) : i \in 1..Len(t)}

\* the characters of the range lo-hi of a regex class, for lo and hi in ','..'Z'
CharRange(lo, hi) ==
    {Char(AsciiCommaToZ, i) : i \in IndexIn(lo, AsciiCommaToZ)..IndexIn(hi, AsciiCommaToZ)}

LowerChars == Chars(Lower)
UpperChars == Chars(Upper)
DigitChars == Chars(Digits)

IsLower(c) == c \in LowerChars
IsUpper(c) == c \in UpperChars
IsDigit(c) == c \in DigitChars

UpperOf == [c \in LowerChars |-> Char(Upper, IndexIn(c, Lower))]

upper_char(c) == IF IsLower(c) THEN UpperOf[c] ELSE c

\* s.upper()
RECURSIVE upper(_)
upper(s) == IF Len(s) = 0 THEN "" ELSE upper_char(Char(s, 1)) \o upper(SubSeq(s, 2, Len(s)))

\* re.search(r'^%s( |$)' % kw, s)
MatchKeyword(kw, s) ==
    /\ startswith(s, kw)
    /\ \/ Len(s) = Len(kw)
       \/ Char(s, Len(kw) + 1) = " "
       \/ SubSeq(s, Len(kw) + 1, Len(s)) = "\n"


(***************************************************************************)
(* KConfig: the attributes of one parser object.                           *)
(*   tabs[m]       the dict self.<m> of the config type m                  *)
(*   current       current[m] is self.current_<m>; m is in the domain only *)
(*                 once that attribute has been set                        *)
(*   has_mode      hasattr(self, 'mode')                                   *)
(*   pos           how many lines parse_config has read from the file      *)
(***************************************************************************)

_general_starts == <<"menu", "choice", "config", "menuconfig", "if">>
_general_exits == <<"endmenu", "endchoice", "endif">>
_var_types == <<"bool", "tristate", "int", "string">>
_help_exits == _general_starts \o _general_exits \o _var_types
default_arch == "x86"
default_base_path == "/usr/src/linux"

Range(q) == {q[i] : i \in DOMAIN q}

EmptyDict == <<>>

\* d[k] = v on a dict
Put(d, k, v) == [x \in (DOMAIN d) \cup {k} |-> IF x = k THEN v ELSE d[x]]

\* the names for which hasattr(<a dict>, name) is true: the methods and the
\* special attributes of dict (dir(dict()) of Python 3.11)
DictAttrs ==
    {"clear", "copy", "fromkeys", "get", "items", "keys", "pop", "popitem",
     "setdefault", "update", "values",
     "__class__", "__class_getitem__", "__contains__", "__delattr__", "__delitem__",
     "__dir__", "__doc__", "__eq__", "__format__", "__ge__", "__getattribute__",
     "__getitem__", "__getstate__", "__gt__", "__hash__", "__init__",
     "__init_subclass__", "__ior__", "__iter__", "__le__", "__len__", "__lt__",
     "__ne__", "__new__", "__or__", "__reduce__", "__reduce_ex__", "__repr__",
     "__reversed__", "__ror__", "__setattr__", "__setitem__", "__sizeof__",
     "__str__", "__subclasshook__"}

\* the result of a method: the object after it, the exception it raised ("" for
\* none), the warnings it logged and the path of the child it has to construct
Ok(self) == [self |-> self, exc |-> "", warn |-> <<>>, has_source |-> FALSE, source_path |-> ""]
Raise(self, e) == [self |-> self, exc |-> e, warn |-> <<>>, has_source |-> FALSE, source_path |-> ""]
Warn(self, msg) == [self |-> self, exc |-> "", warn |-> <<msg>>, has_source |-> FALSE, source_path |-> ""]
Source(self, path) == [self |-> self, exc |-> "", warn |-> <<>>, has_source |-> TRUE, source_path |-> path]

\* KConfig.__init__ up to the call of parse_config.  base_path and arch are the
\* keyword arguments, "" for None: a falsy argument leaves the class attribute.
\* in_<mode> is None for every mode, since `menu` and `choice` are bound to
\* the named parameters of __init__ and never reach kwargs.
KConfigNew(file_path, base_path, arch) ==
    [file_path    |-> file_path,
     base_path    |-> IF base_path # "" THEN base_path ELSE default_base_path,
     arch         |-> IF arch # "" THEN arch ELSE default_arch,
     in_menu      |-> "",
     in_choice    |-> "",
     tabs         |-> [m \in Range(_general_starts) |-> EmptyDict],
     sub_configs  |-> EmptyDict,
     mode_history |-> <<>>,
     help_mode    |-> FALSE,
     has_mode     |-> FALSE,
     mode         |-> "",
     current      |-> EmptyDict,
     pos          |-> 0]

\* the file parse_config opens
FullPath(self) == self.base_path \o "/" \o self.file_path

\* KConfig.__setattr__ for name = 'mode'; None is ""
setattr_mode(self, value) ==
    IF value # ""
    THEN Ok([self EXCEPT !.mode_history = Append(@, value), !.mode = value, !.has_mode = TRUE])
    ELSE IF self.mode_history = <<>>
         THEN Raise(self, "IndexError")
         ELSE Ok([self EXCEPT !.mode_history = SubSeq(@, 1, Len(@) - 1),
                              !.mode = self.mode_history[Len(self.mode_history)],
                              !.has_mode = TRUE])

_skip_line(config_line) == startswith(config_line, "#") \/ config_line = ""

\* the exception of getattr(self, 'current_' + self.mode), "" when it succeeds
CurrentNameExc(self) ==
    IF ~self.has_mode \/ self.mode \notin DOMAIN self.current THEN "AttributeError" ELSE ""

\* the exception of getattr(self, self.mode)[getattr(self, 'current_' + self.mode)]
CurrentEntryExc(self) ==
    IF ~self.has_mode \/ self.mode \notin DOMAIN self.tabs THEN "AttributeError"
    ELSE IF self.mode \notin DOMAIN self.current THEN "AttributeError"
    ELSE IF self.current[self.mode] \notin DOMAIN self.tabs[self.mode] THEN "KeyError"
    ELSE ""

\* getattr(self, self.mode)[getattr(self, 'current_' + self.mode)]
CurrentEntry(self) == self.tabs[self.mode][self.current[self.mode]]

\* getattr(self, self.mode)[getattr(self, 'current_' + self.mode)][field] = value
SetField(self, field, value) ==
    [self EXCEPT !.tabs[self.mode][self.current[self.mode]] = Put(@, field, value)]

\* if not hasattr(getattr(self, mode), name): getattr(self, mode)[name] = dict()
\* setattr(self, 'current_' + mode, name)
InitEntry(self, mode, name) ==
    [self EXCEPT !.tabs[mode] = IF name \in DictAttrs THEN @ ELSE Put(@, name, EmptyDict),
                 !.current = Put(@, mode, name)]

\* the loop of _exit_mode over _general_exits, from the i-th exit on
RECURSIVE ExitLoop(_, _, _)
ExitLoop(self, config_line, i) ==
    IF i > Len(_general_exits) THEN Ok(self)
    ELSE IF ~contains(config_line, _general_exits[i]) THEN ExitLoop(self, config_line, i + 1)
    ELSE IF ~self.has_mode THEN Raise(self, "AttributeError")
    ELSE LET r == setattr_mode(self, "")
         IN  IF r.exc # "" THEN r ELSE ExitLoop(r.self, config_line, i + 1)

_exit_mode(self, config_line) ==
    LET r == ExitLoop(self, config_line, 1)
    IN  IF r.exc # "" THEN r
        ELSE IF r.self.help_mode
             THEN IF CurrentNameExc(r.self) # "" THEN Raise(self, CurrentNameExc(r.self))
                  ELSE Ok([r.self EXCEPT !.help_mode = FALSE])
             ELSE r

\* the first statement of _enter_mode (lines 110-123)
EnterFirst(self, config_line) ==
    IF config_line = "help"
    THEN LET s == [self EXCEPT !.help_mode = TRUE]
         IN  IF CurrentEntryExc(s) # "" THEN Raise(self, CurrentEntryExc(s))
             ELSE IF "help" \in DOMAIN CurrentEntry(s) THEN Ok(s)
             ELSE Ok(SetField(s, "help", ""))
    ELSE IF self.help_mode
    THEN IF CurrentNameExc(self) # "" THEN Raise(self, CurrentNameExc(self))
         ELSE Ok([self EXCEPT !.help_mode = FALSE])
    ELSE setattr_mode(self, config_line)

_enter_mode(self, config_line) ==
    LET first == EnterFirst(self, config_line)
    IN  IF first.exc # "" THEN first
        ELSE IF contains(config_line, " ") /\ ~first.self.help_mode
        THEN LET mode == split1(config_line, " ")[1]
                 name == split1(config_line, " ")[2]
                 r == setattr_mode(first.self, mode)
             IN  IF r.exc # "" THEN r
                 ELSE IF mode \notin DOMAIN self.tabs THEN Raise(self, "AttributeError")
                 ELSE Ok(InitEntry(r.self, mode, name))
        ELSE first

\* lines 143-149 of _process_var: the choice takes the quoted text as its name
VarChoice(self, config_line) ==
    IF self.mode # "choice" THEN Ok(self)
    ELSE IF Len(split(config_line, "\"")) < 2 THEN Raise(self, "IndexError")
    ELSE Ok(InitEntry(self, "choice", split(config_line, "\"")[2]))

\* lines 151-155 of _process_var: the def_ form stores what follows 'def_'
VarDefault(self, config_line) ==
    IF ~startswith(config_line, "def_") THEN Ok(self)
    ELSE IF CurrentNameExc(self) # "" THEN Raise(self, CurrentNameExc(self))
    ELSE IF CurrentEntryExc(self) # "" THEN Raise(self, CurrentEntryExc(self))
    ELSE Ok(SetField(self, "default", split(config_line, "def_")[2]))

\* lines 157-165 of _process_var: the type and the prompt
VarType(self, config_line) ==
    IF CurrentNameExc(self) # "" THEN Raise(self, CurrentNameExc(self))
    ELSE IF CurrentEntryExc(self) # "" THEN Raise(self, CurrentEntryExc(self))
    ELSE IF contains(config_line, " ")
    THEN LET var == split1(config_line, " ")[1]
             value == split1(config_line, " ")[2]
         IN  Ok(SetField(SetField(self, "type", var), "prompt", strip_char(value, "\"")))
    ELSE Ok(SetField(self, "type", config_line))

_process_var(self, config_line) ==
    IF ~self.has_mode THEN Raise(self, "AttributeError")
    ELSE IF self.mode \notin {"config", "menuconfig", "choice"} THEN Raise(self, "ValueError")
    ELSE LET a == VarChoice(self, config_line)
             b == VarDefault(a.self, config_line)
             rest == IF startswith(config_line, "def_")
                     THEN split(config_line, "def_")[1] ELSE config_line
         IN  IF a.exc # "" THEN a
             ELSE IF b.exc # "" THEN b
             ELSE VarType(b.self, rest)

_test_start(self, config_line) ==
    LET line == IF self.has_mode /\ self.mode # "" THEN lstrip(config_line) ELSE config_line
    IN  \/ \E i \in DOMAIN _general_starts : MatchKeyword(_general_starts[i], line)
        \/ lstrip(config_line) = "help"

_test_var(config_line) ==
    \E i \in DOMAIN _var_types :
        \/ MatchKeyword(_var_types[i], config_line)
        \/ MatchKeyword("def_" \o _var_types[i], config_line)

\* re.search(_source_regex, s) with _source_regex = r'source\s+\"(.*)\"'
SourceRegex(s) ==
    \E i \in Occurrences(s, "source") : \E j \in (i + 7)..Len(s) : \E k \in (j + 1)..Len(s) :
        /\ \A w \in (i + 6)..(j - 1) : IsSpace(Char(s, w))
        /\ Char(s, j) = "\""
        /\ Char(s, k) = "\""
        /\ \A w \in (j + 1)..(k - 1) : Char(s, w) # "\n"

substitute_vars(self, config_line) ==
    IF ~contains(config_line, "$") THEN config_line
    ELSE IF contains(config_line, "$(SRCARCH)") THEN replace(config_line, "$(SRCARCH)", self.arch)
    ELSE config_line

\* lines 208-214 of parse_line: a prompt line names the current entry of the mode
ParsePrompt(self, config_line) ==
    IF Len(split1(config_line, " ")) < 2 THEN Raise(self, "IndexError")
    ELSE IF ~self.has_mode \/ self.mode \notin DOMAIN self.tabs THEN Raise(self, "AttributeError")
    ELSE Ok(InitEntry(self, self.mode, split1(config_line, " ")[2]))

\* lines 225-228 of parse_line: the line is added to the help of the current entry
ParseHelp(self, config_line) ==
    IF CurrentEntryExc(self) # "" THEN Raise(self, CurrentEntryExc(self))
    ELSE IF "help" \notin DOMAIN CurrentEntry(self) THEN Raise(self, "KeyError")
    ELSE Ok(SetField(self, "help", CurrentEntry(self)["help"] \o config_line))

\* lines 230-245 of parse_line: a source line; the child is made by the caller
ParseSource(self, config_line) ==
    IF Len(split_ws(config_line)) < 2 THEN Raise(self, "IndexError")
    ELSE LET source_path == strip_char(split_ws(config_line)[2], "\"")
         IN  IF endswith(source_path, ".include")
             THEN Warn(self, "Skipping include file: " \o source_path)
             ELSE Source(self, source_path)

parse_line(self, raw_line) ==
    LET config_line == substitute_vars(self, rstrip(raw_line))
        stripped == lstrip(config_line)
    IN  IF _skip_line(config_line) THEN Ok(self)
        ELSE IF config_line \in Range(_general_exits) THEN _exit_mode(self, config_line)
        ELSE IF startswith(stripped, "prompt") THEN ParsePrompt(self, config_line)
        ELSE IF _test_start(self, config_line) THEN _enter_mode(self, stripped)
        ELSE IF _test_var(stripped) THEN _process_var(self, stripped)
        ELSE IF self.help_mode THEN ParseHelp(self, stripped)
        ELSE IF SourceRegex(stripped) THEN ParseSource(self, stripped)
        ELSE Warn(self, "Unknown line type: " \o stripped)

\* process_select: no method of the class calls it
process_select(self, config_line) ==
    IF contains(config_line, "if")
    THEN IF Len(split(config_line, "if")) # 2 THEN Raise(self, "ValueError")
         ELSE Warn(self, "Select if statement not implemented: " \o split(config_line, "if")[2])
    ELSE IF CurrentEntryExc(self) # "" THEN Raise(self, CurrentEntryExc(self))
    ELSE IF "select" \notin DOMAIN CurrentEntry(self) THEN Raise(self, "KeyError")
    ELSE Ok(SetField(self, "select", Put(CurrentEntry(self)["select"], config_line, EmptyDict)))

(***************************************************************************)
(* LinuxKernelConfigParameter.  An object is a record: has_value and       *)
(* has_description tell whether the attribute was ever set.  A value that  *)
(* is None has value_none set.                                             *)
(***************************************************************************)

\* re.search(r'[^a-zA0-Z_0-9]', c) finds the character c: c is none of a-z, A,
\* 0-Z (the ASCII range from '0' to 'Z'), _ and 0-9
NameChars == LowerChars \cup {"A"} \cup CharRange("0", "Z") \cup {"_"} \cup DigitChars

InvalidNameChar(c) == c \notin NameChars

\* re.search(_basic_value_match, s) with _basic_value_match = r'^(-?([0-9])+|[ynm])'
BasicValueMatch(s) ==
    \/ Len(s) >= 1 /\ IsDigit(Char(s, 1))
    \/ Len(s) >= 2 /\ Char(s, 1) = "-" /\ IsDigit(Char(s, 2))
    \/ Len(s) >= 1 /\ Char(s, 1) \in {"y", "n", "m"}

\* c is in the class [a-zA-Z0-9/_.,-=\(\) ], where ,-= is the ASCII range from ',' to '='
StringValueChars ==
    LowerChars \cup UpperChars \cup DigitChars \cup {"/", "_", "."} \cup CharRange(",", "=")
        \cup {"(", ")", " "}

StringValueChar(c) == c \in StringValueChars

\* re.search(_string_value_patch, s) with r'^([a-zA-Z0-9/_.,-=\(\) ])*$'; the $
\* also matches before a newline that ends the string
StringValueMatch(s) ==
    LET body == IF endswith(s, "\n") THEN SubSeq(s, 1, Len(s) - 1) ELSE s
    IN  \/ \A i \in 1..Len(s) : StringValueChar(Char(s, i))
        \/ \A i \in 1..Len(body) : StringValueChar(Char(body, i))

_validate_name(name) == \A i \in 1..Len(name) : ~InvalidNameChar(Char(name, i))

_validate_value(value) == BasicValueMatch(value) \/ StringValueMatch(value)

\* a variant of _set_name that looks for the prefix before it makes the name upper-case
_set_name_prefix_first(name) ==
    IF startswith(name, "CONFIG_") THEN upper(name) ELSE "CONFIG_" \o upper(name)

\* the name _set_name stores
_set_name(name) ==
    IF startswith(upper(name), "CONFIG_") THEN upper(name) ELSE "CONFIG_" \o upper(name)

\* the keyword arguments of the constructor
Kwargs(name) ==
    [name |-> name, has_value |-> FALSE, value_none |-> FALSE, value |-> "",
     has_defined |-> FALSE, defined |-> TRUE, has_description |-> FALSE, description |-> ""]

\* the result of a constructor or a conversion: the exception raised ("" for none),
\* the object or the string made, and the warnings logged
Made(obj) == [exc |-> "", obj |-> obj, warn |-> <<>>]
Failed(e) == [exc |-> e, obj |-> "", warn |-> <<>>]

\* LinuxKernelConfigParameter.__init__ with __setattr__, over the components
\* name, value, defined, description in this order.  A value of None reaches
\* re.search(pattern, None) in _validate_value, a TypeError.
LinuxKernelConfigParameter(kwargs) ==
    IF ~_validate_name(kwargs.name) THEN Failed("ValueError")
    ELSE IF kwargs.has_value /\ kwargs.value_none THEN Failed("TypeError")
    ELSE IF kwargs.has_value /\ ~_validate_value(kwargs.value) THEN Failed("ValueError")
    ELSE Made([name            |-> _set_name(kwargs.name),
               has_value       |-> kwargs.has_value,
               value           |-> IF kwargs.has_value THEN kwargs.value ELSE "",
               defined         |-> IF kwargs.has_defined THEN kwargs.defined ELSE TRUE,
               has_description |-> kwargs.has_description,
               description     |-> IF kwargs.has_description THEN kwargs.description ELSE ""])

\* a variant of param_str that puts every value in double quotes
param_str_quoted(self) ==
    IF ~self.has_value THEN Failed("AttributeError")
    ELSE LET output_str == IF self.has_description THEN "# " \o self.description \o "\n" ELSE ""
         IN  Made(output_str \o (IF self.defined THEN self.name \o "=\"" \o self.value \o "\""
                                 ELSE "# " \o self.name \o " is not set"))

\* LinuxKernelConfigParameter.__str__; self.value is read whether or not the
\* parameter is defined
param_str(self) ==
    IF ~self.has_value THEN Failed("AttributeError")
    ELSE LET output_str == IF self.has_description THEN "# " \o self.description \o "\n" ELSE ""
             out_val == IF BasicValueMatch(self.value) THEN self.value
                        ELSE "\"" \o self.value \o "\""
         IN  Made(output_str \o (IF self.defined THEN self.name \o "=" \o out_val
                                 ELSE "# " \o self.name \o " is not set"))

(***************************************************************************)
(* KernelDict.  The dict is the sequence of its values in insertion order; *)
(* the key of a value is its name.  config_values maps a key to a string   *)
(* (kind "str") or to a list of strings (kind "list").                     *)
(***************************************************************************)

FactStr(s) == [kind |-> "str", str |-> s, list |-> <<>>]
FactList(l) == [kind |-> "list", str |-> "", list |-> l]

\* the override specifications: None, a scalar (given by its str()) and a dict
SpecNone == [kind |-> "none", str |-> "", has_value |-> FALSE, value_none |-> FALSE, value |-> "",
             has_description |-> FALSE, description |-> "", has_if |-> FALSE, if_list |-> <<>>]
SpecScalar(s) == [SpecNone EXCEPT !.kind = "scalar", !.str = s]
SpecDict(v) == [SpecNone EXCEPT !.kind = "dict", !.has_value = TRUE, !.value = v]

\* one item of a dict whose values are strings
Item(key, value) == [key |-> key, value |-> value]

\* expression[key], or "" when the expression has no such key
ItemValue(items, key) ==
    IF \E i \in DOMAIN items : items[i].key = key
    THEN items[CHOOSE i \in DOMAIN items : items[i].key = key].value
    ELSE ""

\* one expression of an `if` list, a dict given by its items in the order of
\* insertion: has_value, has_is and has_in say which keys it has
ExprOf(items) ==
    [items |-> items,
     has_value |-> \E i \in DOMAIN items : items[i].key = "value", value |-> ItemValue(items, "value"),
     has_is |-> \E i \in DOMAIN items : items[i].key = "is", is_key |-> ItemValue(items, "is"),
     has_in |-> \E i \in DOMAIN items : items[i].key = "in", in_key |-> ItemValue(items, "in")]

\* the expression written with its keys in the order value, is, in
Expr(value, is_key, in_key) ==
    ExprOf(<<Item("value", value)>>
           \o (IF is_key # "" THEN <<Item("is", is_key)>> ELSE <<>>)
           \o (IF in_key # "" THEN <<Item("in", in_key)>> ELSE <<>>))

\* the characters that are not printable for str.isprintable (Unicode 14.0, the
\* data of Python 3.11) among those a string of a module holds, but tab, newline
\* and carriage return: each run is a string of consecutive code points and the
\* code point of its first character
NonPrintableRuns == <<
    [code |-> 1, chars |-> ""],
    [code |-> 11, chars |-> ""],
    [code |-> 14, chars |-> ""],
    [code |-> 127, chars |-> " "],
    [code |-> 173, chars |-> "­"],
    [code |-> 896, chars |-> "΀΁΂΃"],
    [code |-> 907, chars |-> "΋"],
    [code |-> 909, chars |-> "΍"],
    [code |-> 930, chars |-> "΢"],
    [code |-> 1419, chars |-> "֋֌"],
    [code |-> 1424, chars |-> "֐"],
    [code |-> 1480, chars |-> "׈׉׊׋׌׍׎׏"],
    [code |-> 1515, chars |-> "׫׬׭׮"],
    [code |-> 1525, chars |-> "׵׶׷׸׹׺׻׼׽׾׿"],
    [code |-> 1757, chars |-> "۝"],
    [code |-> 1970, chars |-> "޲޳޴޵޶޷޸޹޺޻޼޽޾޿"],
    [code |-> 2043, chars |-> "߻߼"],
    [code |-> 2191, chars |-> "࢏࢐࢑࢒࢓࢔࢕࢖ࢗ"],
    [code |-> 2274, chars |-> "࣢"],
    [code |-> 2436, chars |-> "঄"],
    [code |-> 2445, chars |-> "঍঎"],
    [code |-> 2449, chars |-> "঑঒"],
    [code |-> 2473, chars |-> "঩"],
    [code |-> 2481, chars |-> "঱"],
    [code |-> 2483, chars |-> "঳঴঵"],
    [code |-> 2490, chars |-> "঺঻"],
    [code |-> 2501, chars |-> "৅৆"],
    [code |-> 2505, chars |-> "৉৊"],
    [code |-> 2511, chars |-> "৏৐৑৒৓৔৕৖"],
    [code |-> 2520, chars |-> "৘৙৚৛"],
    [code |-> 2526, chars |-> "৞"],
    [code |-> 2532, chars |-> "৤৥"],
    [code |-> 2559, chars |-> "৿"],
    [code |-> 2688, chars |-> "઀"],
    [code |-> 2692, chars |-> "઄"],
    [code |-> 2702, chars |-> "઎"],
    [code |-> 2706, chars |-> "઒"],
    [code |-> 2729, chars |-> "઩"],
    [code |-> 2737, chars |-> "઱"],
    [code |-> 2740, chars |-> "઴"],
    [code |-> 2746, chars |-> "઺઻"],
    [code |-> 2758, chars |-> "૆"],
    [code |-> 2762, chars |-> "૊"],
    [code |-> 2766, chars |-> "૎૏"],
    [code |-> 2769, chars |-> "૑૒૓૔૕૖૗૘૙૚૛૜૝૞૟"],
    [code |-> 2788, chars |-> "૤૥"],
    [code |-> 2802, chars |-> "૲૳૴૵૶૷૸"],
    [code |-> 2944, chars |-> "஀஁"],
    [code |-> 2948, chars |-> "஄"],
    [code |-> 2955, chars |-> "஋஌஍"],
    [code |-> 2961, chars |-> "஑"],
    [code |-> 2966, chars |-> "஖஗஘"],
    [code |-> 2971, chars |-> "஛"],
    [code |-> 2973, chars |-> "஝"],
    [code |-> 2976, chars |-> "஠஡஢"],
    [code |-> 2981, chars |-> "஥஦஧"],
    [code |-> 2987, chars |-> "஫஬஭"],
    [code |-> 3002, chars |-> "஺஻஼஽"],
    [code |-> 3011, chars |-> "௃௄௅"],
    [code |-> 3017, chars |-> "௉"],
    [code |-> 3022, chars |-> "௎௏"],
    [code |-> 3025, chars |-> "௑௒௓௔௕௖"],
    [code |-> 3032, chars |-> "௘௙௚௛௜௝௞௟௠௡௢௣௤௥"],
    [code |-> 3067, chars |-> "௻௼௽௾௿"],
    [code |-> 3213, chars |-> "಍"],
    [code |-> 3217, chars |-> "಑"],
    [code |-> 3241, chars |-> "಩"],
    [code |-> 3252, chars |-> "಴"],
    [code |-> 3258, chars |-> "಺಻"],
    [code |-> 3269, chars |-> "೅"],
    [code |-> 3273, chars |-> "೉"],
    [code |-> 3278, chars |-> "೎೏೐೑೒೓೔"],
    [code |-> 3287, chars |-> "೗೘೙೚೛೜"],
    [code |-> 3295, chars |-> "೟"],
    [code |-> 3300, chars |-> "೤೥"],
    [code |-> 3312, chars |-> "೰"],
    [code |-> 3315, chars |-> "ೳ೴೵೶೷೸೹೺೻೼೽೾೿"],
    [code |-> 3456, chars |-> "඀"],
    [code |-> 3460, chars |-> "඄"],
    [code |-> 3479, chars |-> "඗඘඙"],
    [code |-> 3506, chars |-> "඲"],
    [code |-> 3516, chars |-> "඼"],
    [code |-> 3518, chars |-> "඾඿"],
    [code |-> 3527, chars |-> "෇෈෉"],
    [code |-> 3531, chars |-> "෋෌෍෎"],
    [code |-> 3541, chars |-> "෕"],
    [code |-> 3543, chars |-> "෗"],
    [code |-> 3552, chars |-> "෠෡෢෣෤෥"],
    [code |-> 3568, chars |-> "෰෱"],
    [code |-> 3573, chars |-> "෵෶෷෸෹෺෻෼෽෾෿"],
    [code |-> 3712, chars |-> "຀"],
    [code |-> 3715, chars |-> "຃"],
    [code |-> 3717, chars |-> "຅"],
    [code |-> 3723, chars |-> "຋"],
    [code |-> 3748, chars |-> "຤"],
    [code |-> 3750, chars |-> "຦"],
    [code |-> 3774, chars |-> "຾຿"],
    [code |-> 3781, chars |-> "໅"],
    [code |-> 3783, chars |-> "໇"],
    [code |-> 3790, chars |-> "໎໏"],
    [code |-> 3802, chars |-> "໚໛"],
    [code |-> 3808, chars |-> "໠໡໢໣໤໥໦໧໨໩໪໫໬໭໮໯໰໱໲໳໴໵໶໷໸໹໺໻໼໽໾໿"],
    [code |-> 3992, chars |-> "྘"],
    [code |-> 4029, chars |-> "྽"],
    [code |-> 4045, chars |-> "࿍"],
    [code |-> 4059, chars |-> "࿛࿜࿝࿞࿟࿠࿡࿢࿣࿤࿥࿦࿧࿨࿩࿪࿫࿬࿭࿮࿯࿰࿱࿲࿳࿴࿵࿶࿷࿸࿹࿺࿻࿼࿽࿾࿿"],
    [code |-> 4294, chars |-> "჆"],
    [code |-> 4296, chars |-> "჈჉჊჋჌"],
    [code |-> 4302, chars |-> "჎჏"],
    [code |-> 4745, chars |-> "኉"],
    [code |-> 4750, chars |-> "኎኏"],
    [code |-> 4785, chars |-> "኱"],
    [code |-> 4790, chars |-> "኶኷"],
    [code |-> 4799, chars |-> "኿"],
    [code |-> 4801, chars |-> "዁"],
    [code |-> 4806, chars |-> "዆዇"],
    [code |-> 4823, chars |-> "዗"],
    [code |-> 5018, chars |-> "᎚᎛᎜᎝᎞᎟"],
    [code |-> 5110, chars |-> "᏶᏷"],
    [code |-> 5118, chars |-> "᏾᏿"],
    [code |-> 5760, chars |-> " "],
    [code |-> 5789, chars |-> "᚝᚞᚟"],
    [code |-> 5881, chars |-> "᛹᛺᛻᛼᛽᛾᛿"],
    [code |-> 6110, chars |-> "៞៟"],
    [code |-> 6122, chars |-> "៪៫៬៭៮៯"],
    [code |-> 6138, chars |-> "៺៻៼៽៾៿"],
    [code |-> 6315, chars |-> "᢫᢬᢭᢮᢯"],
    [code |-> 6390, chars |-> "᣶᣷᣸᣹᣺᣻᣼᣽᣾᣿"],
    [code |-> 6572, chars |-> "᦬᦭᦮᦯"],
    [code |-> 6602, chars |-> "᧊᧋᧌᧍᧎᧏"],
    [code |-> 6619, chars |-> "᧛᧜᧝"],
    [code |-> 6794, chars |-> "᪊᪋᪌᪍᪎᪏"],
    [code |-> 6810, chars |-> "᪚᪛᪜᪝᪞᪟"],
    [code |-> 6830, chars |-> "᪮᪯"],
    [code |-> 6863, chars |-> "᫏᫐᫑᫒᫓᫔᫕᫖᫗᫘᫙᫚᫛᫜᫝᫞᫟᫠᫡᫢᫣᫤᫥᫦᫧᫨᫩᫪᫫᫬᫭᫮᫯᫰᫱᫲᫳᫴᫵᫶᫷᫸᫹᫺᫻᫼᫽᫾᫿"],
    [code |-> 7156, chars |-> "᯴᯵᯶᯷᯸᯹᯺᯻"],
    [code |-> 7305, chars |-> "Ᲊᲊ᲋᲌᲍᲎᲏"],
    [code |-> 7355, chars |-> "᲻᲼"],
    [code |-> 7368, chars |-> "᳈᳉᳊᳋᳌᳍᳎᳏"],
    [code |-> 7419, chars |-> "᳻᳼᳽᳾᳿"],
    [code |-> 8117, chars |-> "᾵"],
    [code |-> 8133, chars |-> "῅"],
    [code |-> 8148, chars |-> "῔῕"],
    [code |-> 8156, chars |-> "῜"],
    [code |-> 8176, chars |-> "῰῱"],
    [code |-> 8181, chars |-> "῵"],
    [code |-> 8191, chars |-> "῿"],
    [code |-> 8335, chars |-> "₏"],
    [code |-> 8349, chars |-> "₝₞₟"],
    [code |-> 8385, chars |-> "⃁⃂⃃⃄⃅⃆⃇⃈⃉⃊⃋⃌⃍⃎⃏"],
    [code |-> 8433, chars |-> "⃱⃲⃳⃴⃵⃶⃷⃸⃹⃺⃻⃼⃽⃾⃿"],
    [code |-> 8588, chars |-> "↌↍↎↏"],
    [code |-> 11158, chars |-> "⮖"],
    [code |-> 11508, chars |-> "⳴⳵⳶⳷⳸"],
    [code |-> 11671, chars |-> "⶗⶘⶙⶚⶛⶜⶝⶞⶟"],
    [code |-> 11687, chars |-> "⶧"],
    [code |-> 11695, chars |-> "⶯"],
    [code |-> 11703, chars |-> "⶷"],
    [code |-> 11711, chars |-> "⶿"],
    [code |-> 11719, chars |-> "⷇"],
    [code |-> 11727, chars |-> "⷏"],
    [code |-> 11735, chars |-> "⷗"],
    [code |-> 11743, chars |-> "⷟"],
    [code |-> 11930, chars |-> "⺚"],
    [code |-> 12020, chars |-> "⻴⻵⻶⻷⻸⻹⻺⻻⻼⻽⻾⻿"],
    [code |-> 12246, chars |-> "⿖⿗⿘⿙⿚⿛⿜⿝⿞⿟⿠⿡⿢⿣⿤⿥⿦⿧⿨⿩⿪⿫⿬⿭⿮⿯"],
    [code |-> 12284, chars |-> "⿼⿽⿾⿿"],
    [code |-> 12439, chars |-> "゗゘"],
    [code |-> 12687, chars |-> "㆏"],
    [code |-> 12772, chars |-> "㇤㇥㇦㇧㇨㇩㇪㇫㇬㇭㇮㇯"],
    [code |-> 42125, chars |-> "꒍꒎꒏"],
    [code |-> 42183, chars |-> "꓇꓈꓉꓊꓋꓌꓍꓎꓏"],
    [code |-> 42744, chars |-> "꛸꛹꛺꛻꛼꛽꛾꛿"],
    [code |-> 42955, chars |-> "ꟋꟌꟍ꟎꟏"],
    [code |-> 42962, chars |-> "꟒"],
    [code |-> 42964, chars |-> "꟔"],
    [code |-> 42970, chars |-> "ꟚꟛꟜ꟝꟞꟟꟠꟡꟢꟣꟤꟥꟦꟧꟨꟩꟪꟫꟬꟭꟮꟯꟰꟱"],
    [code |-> 43206, chars |-> "꣆꣇꣈꣉꣊꣋꣌꣍"],
    [code |-> 43226, chars |-> "꣚꣛꣜꣝꣞꣟"],
    [code |-> 43470, chars |-> "꧎"],
    [code |-> 43482, chars |-> "꧚꧛꧜꧝"],
    [code |-> 43519, chars |-> "꧿"],
    [code |-> 43715, chars |-> "꫃꫄꫅꫆꫇꫈꫉꫊꫋꫌꫍꫎꫏꫐꫑꫒꫓꫔꫕꫖꫗꫘꫙꫚"],
    [code |-> 43767, chars |-> "꫷꫸꫹꫺꫻꫼꫽꫾꫿"],
    [code |-> 44014, chars |-> "꯮꯯"],
    [code |-> 44026, chars |-> "꯺꯻꯼꯽꯾꯿"],
    [code |-> 55204, chars |-> "힤힥힦힧힨힩힪힫힬힭힮힯"],
    [code |-> 55239, chars |-> "퟇퟈퟉퟊"],
    [code |-> 55292, chars |-> "퟼퟽퟾퟿"],
    [code |-> 57472, chars |-> ""],
    [code |-> 57728, chars |-> ""],
    [code |-> 57984, chars |-> ""],
    [code |-> 58240, chars |-> ""],
    [code |-> 58496, chars |-> ""],
    [code |-> 58752, chars |-> ""],
    [code |-> 59008, chars |-> ""],
    [code |-> 59264, chars |-> ""],
    [code |-> 59520, chars |-> ""],
    [code |-> 59776, chars |-> ""],
    [code |-> 60032, chars |-> ""],
    [code |-> 60288, chars |-> ""],
    [code |-> 60544, chars |-> ""],
    [code |-> 60800, chars |-> ""],
    [code |-> 61056, chars |-> ""],
    [code |-> 61312, chars |-> ""],
    [code |-> 61568, chars |-> ""],
    [code |-> 61824, chars |-> ""],
    [code |-> 62080, chars |-> ""],
    [code |-> 62336, chars |-> ""],
    [code |-> 62592, chars |-> ""],
    [code |-> 62848, chars |-> ""],
    [code |-> 63104, chars |-> ""],
    [code |-> 63360, chars |-> ""],
    [code |-> 63616, chars |-> ""],
    [code |-> 64218, chars |-> "﫚﫛﫜﫝﫞﫟﫠﫡﫢﫣﫤﫥﫦﫧﫨﫩﫪﫫﫬﫭﫮﫯﫰﫱﫲﫳﫴﫵﫶﫷﫸﫹﫺﫻﫼﫽﫾﫿"],
    [code |-> 64451, chars |-> "﯃﯄﯅﯆﯇﯈﯉﯊﯋﯌﯍﯎﯏﯐﯑﯒"],
    [code |-> 64912, chars |-> "﶐﶑"],
    [code |-> 64968, chars |-> "﷈﷉﷊﷋﷌﷍﷎"],
    [code |-> 64976, chars |-> "﷐﷑﷒﷓﷔﷕﷖﷗﷘﷙﷚﷛﷜﷝﷞﷟﷠﷡﷢﷣﷤﷥﷦﷧﷨﷩﷪﷫﷬﷭﷮﷯"],
    [code |-> 65277, chars |-> "﻽﻾﻿"],
    [code |-> 65471, chars |-> "﾿￀￁"],
    [code |-> 65480, chars |-> "￈￉"],
    [code |-> 65488, chars |-> "￐￑"],
    [code |-> 65496, chars |-> "￘￙"],
    [code |-> 65501, chars |-> "￝￞￟"],
    [code |-> 65511, chars |-> "￧"],
    [code |-> 65519, chars |-> "￯￰￱￲￳￴￵￶￷￸￹￺￻"],
    [code |-> 65534, chars |-> "￾￿"]
>>

NonPrintableChars ==
    UNION {{SubSeq(NonPrintableRuns[r].chars, i, i) : i \in 1..Len(NonPrintableRuns[r].chars)} :
              r \in DOMAIN NonPrintableRuns}

\* ord(c) for a character of NonPrintableChars
ord_np(c) ==
    LET r == CHOOSE r \in DOMAIN NonPrintableRuns : contains(NonPrintableRuns[r].chars, c)
    IN  NonPrintableRuns[r].code + Min(Occurrences(NonPrintableRuns[r].chars, c)) - 1

HexDigits == "0123456789abcdef"

\* n in base 16 with width digits
RECURSIVE hex(_, _)
hex(n, width) ==
    IF width = 0 THEN ""
    ELSE hex(n \div 16, width - 1) \o SubSeq(HexDigits, (n % 16) + 1, (n % 16) + 1)

\* one character in the repr of a str: the backslash and the quote in use are
\* escaped, tab, newline and carriage return are \t, \n and \r, and a character
\* that is not printable is \xNN up to U+00FF and \uNNNN above
repr_char(c, quote) ==
    IF c = "\\" \/ c = quote THEN "\\" \o c
    ELSE IF c = "\t" THEN "\\t"
    ELSE IF c = "\n" THEN "\\n"
    ELSE IF c = "\r" THEN "\\r"
    ELSE IF c \in NonPrintableChars
    THEN IF ord_np(c) < 256 THEN "\\x" \o hex(ord_np(c), 2) ELSE "\\u" \o hex(ord_np(c), 4)
    ELSE c

RECURSIVE repr_chars(_, _)
repr_chars(s, quote) ==
    IF Len(s) = 0 THEN ""
    ELSE repr_char(SubSeq(s, 1, 1), quote) \o repr_chars(SubSeq(s, 2, Len(s)), quote)

\* repr of a str: in double quotes when it holds ' and no ", and else in single
\* quotes
str_repr(s) ==
    LET quote == IF contains(s, "'") /\ ~contains(s, "\"") THEN "\"" ELSE "'"
    IN  quote \o repr_chars(s, quote) \o quote

\* repr of the items of a dict from the i-th on, without { and }
RECURSIVE items_repr(_, _)
items_repr(items, i) ==
    IF i > Len(items) THEN ""
    ELSE str_repr(items[i].key) \o ": " \o str_repr(items[i].value)
            \o (IF i < Len(items) THEN ", " ELSE "") \o items_repr(items, i + 1)

\* repr of one expression, a dict: its keys in the order of insertion
expr_repr(e) == "{" \o items_repr(e.items, 1) \o "}"

\* repr of the list parameters['if'], from the i-th expression on, without [ and ]
RECURSIVE if_items_repr(_, _)
if_items_repr(if_list, i) ==
    IF i > Len(if_list) THEN ""
    ELSE expr_repr(if_list[i]) \o (IF i < Len(if_list) THEN ", " ELSE "")
            \o if_items_repr(if_list, i + 1)

\* "%s" % parameters['if'] of line 380
if_repr(if_list) == "[" \o if_items_repr(if_list, 1) \o "]"

\* the result of an expression: the exception raised and the truth value
Truth(b) == [exc |-> "", out |-> b]
NoTruth(e) == [exc |-> e, out |-> FALSE]

_expression_is(config_values, expression) ==
    IF ~expression.has_value THEN NoTruth("KeyError")
    ELSE IF expression.is_key \notin DOMAIN config_values THEN NoTruth("KeyError")
    ELSE LET config == config_values[expression.is_key]
         IN  Truth(config.kind = "str" /\ config.str = expression.value)

_expression_in(config_values, expression) ==
    IF ~expression.has_value THEN NoTruth("KeyError")
    ELSE IF expression.in_key \notin DOMAIN config_values THEN NoTruth("KeyError")
    ELSE LET config == config_values[expression.in_key]
         IN  Truth(IF config.kind = "str" THEN contains(config.str, expression.value)
                   ELSE expression.value \in Range(config.list))

check_expression(config_values, expression) ==
    LET a == IF expression.has_is THEN _expression_is(config_values, expression) ELSE Truth(FALSE)
    IN  IF a.exc # "" THEN a
        ELSE IF expression.has_in THEN _expression_in(config_values, expression)
        ELSE a

\* [self.check_expression(expression) for expression in parameters['if']], from
\* the i-th expression on: the exception raised and whether True is in the list
RECURSIVE CheckAll(_, _, _)
CheckAll(config_values, if_list, i) ==
    IF i > Len(if_list) THEN Truth(FALSE)
    ELSE LET a == check_expression(config_values, if_list[i])
             rest == CheckAll(config_values, if_list, i + 1)
         IN  IF a.exc # "" THEN a
             ELSE IF rest.exc # "" THEN rest
             ELSE Truth(a.out \/ rest.out)

\* the result of _gen_config_obj_from_dict: none is set when it returns None
Gen(r) == [exc |-> r.exc, none |-> FALSE, obj |-> r.obj, warn |-> r.warn]
GenNone(msg) == [exc |-> "", none |-> TRUE, obj |-> "", warn |-> <<msg>>]
GenFailed(e) == [exc |-> e, none |-> FALSE, obj |-> "", warn |-> <<>>]

_gen_config_obj_from_dict(config_values, name, parameters) ==
    IF parameters.kind = "none"
    THEN Gen(LinuxKernelConfigParameter([Kwargs(name) EXCEPT !.has_defined = TRUE, !.defined = FALSE]))
    ELSE IF parameters.kind = "dict"
    THEN LET kwargs == [Kwargs(name) EXCEPT !.has_value = TRUE,
                                            !.value_none = parameters.value_none,
                                            !.value = parameters.value,
                                            !.has_description = parameters.has_description,
                                            !.description = parameters.description]
             tests == CheckAll(config_values, parameters.if_list, 1)
         IN  IF ~parameters.has_value THEN GenFailed("KeyError")
             ELSE IF parameters.has_if /\ tests.exc # "" THEN GenFailed(tests.exc)
             ELSE IF parameters.has_if /\ ~tests.out THEN GenNone("All tests failed for: " \o if_repr(parameters.if_list))
             ELSE Gen(LinuxKernelConfigParameter(kwargs))
    ELSE Gen(LinuxKernelConfigParameter([Kwargs(name) EXCEPT !.has_value = TRUE, !.value = parameters.str]))

\* the positions of the key in the dict
KeyIndex(dict, key) == {i \in DOMAIN dict : dict[i].name = key}

\* the result of an operation on the dict
Stored(dict, warn) == [exc |-> "", dict |-> dict, warn |-> warn]
NotStored(dict, e) == [exc |-> e, dict |-> dict, warn |-> <<>>]

\* update_value; the warning formats the record that is already stored
update_value(dict, value) ==
    IF KeyIndex(dict, value.name) = {} THEN Stored(Append(dict, value), <<>>)
    ELSE LET i == CHOOSE i \in KeyIndex(dict, value.name) : TRUE
         IN  IF param_str(dict[i]).exc # "" THEN NotStored(dict, param_str(dict[i]).exc)
             ELSE Stored([dict EXCEPT ![i] = value],
                         <<"Key is already defined: " \o param_str(dict[i]).obj>>)

\* KernelDict.__setitem__
setitem(dict, config_values, key, value) ==
    LET g == _gen_config_obj_from_dict(config_values, key, value)
    IN  IF g.exc # "" THEN NotStored(dict, g.exc)
        ELSE IF g.none
        THEN Stored(dict, g.warn \o <<"Failed to generate config parameter for: " \o key>>)
        ELSE update_value(dict, g.obj)

\* KernelDict.__str__, from the i-th value on
RECURSIVE dict_str(_, _)
dict_str(dict, i) ==
    IF i > Len(dict) THEN Made("")
    ELSE LET a == param_str(dict[i])
             rest == dict_str(dict, i + 1)
         IN  IF a.exc # "" THEN a
             ELSE IF rest.exc # "" THEN rest
             ELSE Made(a.obj \o "\n" \o rest.obj)

(***************************************************************************)
(* The parser as a state machine.  KConfig() parses its file inside the    *)
(* constructor and a source line constructs the child inside parse_line,   *)
(* so the constructors in progress form a call stack: stack[1] is the root *)
(* object and the last element is the object whose file is being read.     *)
(* The files are the environment: `files` holds, for every file opened so  *)
(* far, the lines read from it so far and whether its end was reached.  A  *)
(* file that is opened again yields the same lines again.                  *)
(***************************************************************************)
VARIABLES stack, files, pc, exc, warnings, line

parser_vars == <<stack, files, pc, exc, warnings, line>>

\* how many lines all the files hold together, at most
MaxLines == 4
\* how many constructors may be in progress at once
MaxDepth == 3

\* the lines a file may hold
Lines ==
    {"menu", "menu \"M\"", "choice", "config FOO", "config keys",
     "endmenu", "endchoice",
     "help", "  line one", "  line two  ",
     "\tbool \"Prompt\"", "def_bool y", "tristate",
     "source \"Kconfig\"", "source \"$(SRCARCH)\"", "source \"b.include\"",
     "select BAZ", "select X if Y", "# c", "\tprompt \"P\""}

\* the keyword arguments base_path and arch of the root object ("" for None);
\* main.py constructs KConfig() with neither
RootArgs == {[base_path |-> "", arch |-> ""], [base_path |-> "/src", arch |-> "arm"]}

Top == stack[Len(stack)]

RECURSIVE SumLines(_, _)
SumLines(f, S) ==
    IF S = {} THEN 0
    ELSE LET p == CHOOSE p \in S : TRUE IN Len(f[p].lines) + SumLines(f, S \ {p})

TotalLines == SumLines(files, DOMAIN files)

NewFile == [lines |-> <<>>, eof |-> FALSE]

\* the lines the iteration over the open file may yield next
NextLines ==
    LET f == files[FullPath(Top)]
    IN  IF Top.pos < Len(f.lines) THEN {f.lines[Top.pos + 1]}
        ELSE IF f.eof \/ TotalLines >= MaxLines THEN {}
        ELSE Lines

\* `files` once the open file has yielded l
FilesAfter(l) ==
    [files EXCEPT ![FullPath(Top)].lines = IF Top.pos < Len(@) THEN @ ELSE Append(@, l)]

\* line 245: KConfig(**kwargs) with kwargs = {logger, file_path}; in_menu and
\* in_choice are None, so neither menu nor choice is passed, and base_path and
\* arch are never passed
Child(self, source_path) == KConfigNew(source_path, "", "")

\* parse_config, one iteration: the next line of the open file goes to parse_line
ParseLine ==
    /\ pc = "parsing"
    /\ \E l \in NextLines :
         LET r == parse_line([Top EXCEPT !.pos = @ + 1], l \o "\n")
             child == Child(r.self, r.source_path)
         IN  /\ line' = l
             /\ warnings' = r.warn
             /\ IF r.exc # ""
                THEN /\ pc' = "raised"
                     /\ exc' = r.exc
                     /\ files' = FilesAfter(l)
                     /\ stack' = stack
                ELSE IF ~r.has_source
                THEN /\ stack' = [stack EXCEPT ![Len(stack)] = r.self]
                     /\ files' = FilesAfter(l)
                     /\ UNCHANGED <<pc, exc>>
                ELSE IF FullPath(child) \in DOMAIN files
                THEN /\ Len(stack) < MaxDepth
                     /\ stack' = Append([stack EXCEPT ![Len(stack)] = r.self], child)
                     /\ files' = FilesAfter(l)
                     /\ UNCHANGED <<pc, exc>>
                ELSE \E exists \in BOOLEAN :
                       IF exists
                       THEN /\ Len(stack) < MaxDepth
                            /\ stack' = Append([stack EXCEPT ![Len(stack)] = r.self], child)
                            /\ files' = Put(FilesAfter(l), FullPath(child), NewFile)
                            /\ UNCHANGED <<pc, exc>>
                       ELSE /\ pc' = "raised"
                            /\ exc' = "FileNotFoundError"
                            /\ files' = FilesAfter(l)
                            /\ stack' = stack

\* parse_config, the end of the loop: the constructor returns; line 245 stores
\* the child in the parent's sub_configs
EndOfFile ==
    /\ pc = "parsing"
    /\ Top.pos = Len(files[FullPath(Top)].lines)
    /\ files' = [files EXCEPT ![FullPath(Top)].eof = TRUE]
    /\ IF Len(stack) = 1
       THEN pc' = "done" /\ stack' = stack
       ELSE /\ pc' = pc
            /\ stack' = [SubSeq(stack, 1, Len(stack) - 1) EXCEPT
                            ![Len(stack) - 1].sub_configs = Put(@, Top.file_path, Top)]
    /\ UNCHANGED <<exc, warnings, line>>

ParserInit ==
    /\ \E a \in RootArgs :
         /\ stack = <<KConfigNew("Kconfig", a.base_path, a.arch)>>
         /\ files = Put(EmptyDict, FullPath(KConfigNew("Kconfig", a.base_path, a.arch)), NewFile)
    /\ pc = "parsing"
    /\ exc = ""
    /\ warnings = <<>>
    /\ line = ""

(***************************************************************************)
(* The resolver as a state machine: a KernelDict, the values of the config *)
(* file and the entries set on the dict one after the other.               *)
(*   kdict          the dict, its values in insertion order                *)
(*   config_values  self.config_values                                     *)
(*   last           the operation made last, with its arguments            *)
(*   output         the string str() returned last                         *)
(*   nops           how many operations were made                          *)
(***************************************************************************)
VARIABLES kdict, config_values, kpc, kexc, kwarnings, last, output, nops

resolver_vars == <<kdict, config_values, kpc, kexc, kwarnings, last, output, nops>>

\* how many operations are made on one dict
MaxOps == 3

\* the keys of the entries
RawNames == {"FOO", "foo", "config_foo", "CONFIG_FOO", "A=B", "a-b"}

\* the values of the entries
OverrideSpecs ==
    {SpecNone,
     SpecScalar("y"), SpecScalar("1"), SpecScalar("none"), SpecScalar("my string"),
     SpecScalar("bad;value"), SpecScalar("bad$"), SpecScalar("ok_value-1"), SpecScalar("y$"),
     [SpecDict("y") EXCEPT !.has_description = TRUE, !.description = "d"],
     [SpecDict("x") EXCEPT !.has_if = TRUE, !.if_list = <<Expr("x", "arch", "")>>],
     [SpecDict("x") EXCEPT !.has_if = TRUE, !.if_list = <<Expr("q", "arch", ""),
                                                            ExprOf(<<Item("in", "features"), Item("value", "x")>>)>>],
     [SpecDict("") EXCEPT !.has_value = FALSE]}

\* the keys and values of the config file other than `templates`
ConfigFileItems ==
    {<<"arch", FactStr("arm")>>, <<"arch", FactStr("x")>>, <<"features", FactList(<<"x", "z">>)>>}

NoOp == [op |-> "", key |-> "", spec |-> SpecNone]

\* load_config, lines 342-343: a key of the config file other than `templates`
LoadConfigValue ==
    /\ kpc = "ready"
    /\ nops < MaxOps
    /\ \E item \in ConfigFileItems :
         /\ config_values' = Put(config_values, item[1], item[2])
         /\ last' = [op |-> "load", key |-> item[1], spec |-> SpecNone]
    /\ kwarnings' = <<>>
    /\ nops' = nops + 1
    /\ UNCHANGED <<kdict, kpc, kexc, output>>

\* self[key] = value: line 354 of load_yaml_template for an entry of a template,
\* or a caller of the dict
SetItem ==
    /\ kpc = "ready"
    /\ nops < MaxOps
    /\ \E key \in RawNames, value \in OverrideSpecs :
         LET r == setitem(kdict, config_values, key, value)
         IN  /\ last' = [op |-> "set", key |-> key, spec |-> value]
             /\ kdict' = r.dict
             /\ kwarnings' = r.warn
             /\ kexc' = r.exc
             /\ kpc' = IF r.exc # "" THEN "raised" ELSE kpc
    /\ nops' = nops + 1
    /\ UNCHANGED <<config_values, output>>

\* str(config), as print(config) of main.py
StrConfig ==
    /\ kpc = "ready"
    /\ nops < MaxOps
    /\ LET r == dict_str(kdict, 1)
       IN  /\ output' = IF r.exc # "" THEN output ELSE r.obj
           /\ kexc' = r.exc
           /\ kpc' = IF r.exc # "" THEN "raised" ELSE kpc
    /\ last' = [op |-> "str", key |-> "", spec |-> SpecNone]
    /\ kwarnings' = <<>>
    /\ nops' = nops + 1
    /\ UNCHANGED <<kdict, config_values>>

ResolverInit ==
    /\ kdict = <<>>
    /\ config_values = EmptyDict
    /\ kpc = "ready"
    /\ kexc = ""
    /\ kwarnings = <<>>
    /\ last = NoOp
    /\ output = ""
    /\ nops = 0

\* no parser
ParserIdle ==
    /\ stack = <<>>
    /\ files = EmptyDict
    /\ pc = "done"
    /\ exc = ""
    /\ warnings = <<>>
    /\ line = ""

\* no resolver
ResolverIdle ==
    /\ kdict = <<>>
    /\ config_values = EmptyDict
    /\ kpc = "done"
    /\ kexc = ""
    /\ kwarnings = <<>>
    /\ last = NoOp
    /\ output = ""
    /\ nops = 0

vars == <<parser_vars, resolver_vars>>

Init == ParserInit /\ ResolverIdle

Next ==
    \/ ParseLine /\ UNCHANGED resolver_vars
    \/ EndOfFile /\ UNCHANGED resolver_vars

Spec == Init /\ [][Next]_vars

InitResolve == ResolverInit /\ ParserIdle

NextResolve ==
    \/ LoadConfigValue /\ UNCHANGED parser_vars
    \/ SetItem /\ UNCHANGED parser_vars
    \/ StrConfig /\ UNCHANGED parser_vars

SpecResolve == InitResolve /\ [][NextResolve]_vars

(***************************************************************************)
(* Properties of the parser, checked under Spec.                           *)
(***************************************************************************)

\* the step is one call of parse_line by the object on top of the stack
ParseStep ==
    /\ pc = "parsing"
    /\ \/ pc' = "raised"
       \/ /\ pc' = "parsing"
          /\ Len(stack') >= Len(stack)
          /\ stack'[Len(stack)].pos = Top.pos + 1

\* the object on top of the stack after a ParseStep that raised nothing
After == stack'[Len(stack)]

\* the lines the object has read from its file
LinesRead(self) == SubSeq(files[FullPath(self)].lines, 1, self.pos)

\* the line opens a menu, a choice or an if block
IsScopeOpener(l) == \E kw \in {"menu", "choice", "if"} : MatchKeyword(kw, lstrip(rstrip(l)))

\* the line closes a block
IsScopeCloser(l) == rstrip(l) \in {"endmenu", "endchoice", "endif"}

OpenersSeen(self) == Cardinality({i \in 1..self.pos : IsScopeOpener(LinesRead(self)[i])})
ClosersSeen(self) == Cardinality({i \in 1..self.pos : IsScopeCloser(LinesRead(self)[i])})

\* C1: in every parser, the depth of mode_history is the number of menu, choice
\* and if opener lines read so far minus the number of closer lines read so far
C1_DepthIsNesting ==
    \A i \in DOMAIN stack :
        Len(stack[i].mode_history) = OpenersSeen(stack[i]) - ClosersSeen(stack[i])

\* the kind of a frame of mode_history: its first word
FrameKind(frame) == split1(frame, " ")[1]

\* C2: a closer line whose kind is not the kind of the top frame, a menu, choice
\* or if frame, is reported (an exception or a warning) and leaves mode_history
\* and the mode as they were
C2_MismatchedCloserKeepsStack ==
    [][(/\ ParseStep
        /\ IsScopeCloser(line')
        /\ Top.mode_history # <<>>
        /\ FrameKind(Top.mode_history[Len(Top.mode_history)]) \in {"menu", "choice", "if"}
        /\ rstrip(line') # "end" \o FrameKind(Top.mode_history[Len(Top.mode_history)]))
       => \/ pc' = "raised"
          \/ /\ warnings' # <<>>
             /\ After.mode_history = Top.mode_history
             /\ After.mode = Top.mode]_vars

\* the current parameter of the parser has a help body
HasHelpBody(self) == CurrentEntryExc(self) = "" /\ "help" \in DOMAIN CurrentEntry(self)

\* the line opens a block: a block keyword and then a space or the end of the line
IsBlockOpener(l) ==
    \E kw \in {"menu", "choice", "config", "menuconfig", "if"} : MatchKeyword(kw, lstrip(rstrip(l)))

\* the name of a `config NAME` line read in help mode
ConfigName(l) == split1(lstrip(rstrip(l)), " ")[2]

\* C3: in help mode, which a `help` line turns on and a block opener turns off,
\* every line other than a block opener is read with no error and is added,
\* stripped on the left and with nothing in between, to the help body of the
\* current parameter, which stays the current parameter
C3_EveryLineAppended ==
    [][(ParseStep /\ Top.help_mode /\ ~IsBlockOpener(line'))
       => /\ pc' = "parsing"
          /\ HasHelpBody(Top)
          /\ HasHelpBody(After)
          /\ After.current = Top.current
          /\ CurrentEntry(After)["help"] = CurrentEntry(Top)["help"] \o lstrip(line')]_vars

\* C4: no file is parsed while it is already being parsed: the (base_path,
\* file_path) pairs of the constructors in progress are all different
C4_NoReentry ==
    \A i, j \in DOMAIN stack :
        i < j => <<stack[i].base_path, stack[i].file_path>> # <<stack[j].base_path, stack[j].file_path>>

\* C5: a child has the base_path and the arch of the object that read the source
\* line, while it is being parsed and once it is stored in sub_configs
C5_ChildInheritsPathAndArch ==
    /\ \A i \in DOMAIN stack : i > 1 =>
          stack[i].base_path = stack[i - 1].base_path /\ stack[i].arch = stack[i - 1].arch
    /\ \A i \in DOMAIN stack : \A p \in DOMAIN stack[i].sub_configs :
          /\ stack[i].sub_configs[p].file_path = p
          /\ stack[i].sub_configs[p].base_path = stack[i].base_path
          /\ stack[i].sub_configs[p].arch = stack[i].arch

\* the line is source "<path>" with a path that ends with .include
IsIncludeSource(l) ==
    LET t == lstrip(rstrip(l))
    IN  /\ startswith(t, "source \"")
        /\ endswith(t, ".include\"")

\* C6: a source line for an .include path adds nothing to sub_configs, makes no
\* child and logs a warning
C6_IncludeSkippedWithWarning ==
    [][(ParseStep /\ IsIncludeSource(line'))
       => /\ pc' = "parsing"
          /\ Len(stack') = Len(stack)
          /\ After.sub_configs = Top.sub_configs
          /\ warnings' # <<>>]_vars

\* C7: `config NAME` and then an indented `bool "Prompt"` leave the config entry
\* NAME with the type bool and the prompt Prompt
C7_ConfigBoolPrompt ==
    [][(/\ ParseStep
        /\ lstrip(rstrip(line')) = "bool \"Prompt\""
        /\ Top.pos >= 1
        /\ MatchKeyword("config", LinesRead(Top)[Top.pos])
        /\ LinesRead(Top)[Top.pos] # "config")
       => /\ pc' = "parsing"
          /\ ConfigName(LinesRead(Top)[Top.pos]) \in DOMAIN After.tabs["config"]
          /\ "type" \in DOMAIN After.tabs["config"][ConfigName(LinesRead(Top)[Top.pos])]
          /\ After.tabs["config"][ConfigName(LinesRead(Top)[Top.pos])]["type"] = "bool"
          /\ After.tabs["config"][ConfigName(LinesRead(Top)[Top.pos])]["prompt"] = "Prompt"]_vars

(***************************************************************************)
(* Properties of the resolver and the emitter, checked under SpecResolve.  *)
(***************************************************************************)

\* the last operation set an entry and raised nothing
SetDone == kpc = "ready" /\ last.op = "set"

\* the values of the dict stored under the key
ValuesAt(key) == {kdict[i] : i \in KeyIndex(kdict, key)}

\* the key CONFIG_ and the upper-case name, written out for the names of the model
ExpectedKey(raw) ==
    CASE raw \in {"FOO", "foo", "config_foo", "CONFIG_FOO"} -> "CONFIG_FOO"
      [] raw = "A=B" -> "CONFIG_A=B"
      [] raw = "a-b" -> "CONFIG_A-B"

\* C8: an entry set to a plain scalar that is a tristate or a number is stored and
\* is rendered as the normalised name, = and the value without quotes, with no
\* comment line: FOO set to "y" gives CONFIG_FOO=y
C8_ScalarRoundTrip ==
    (SetDone /\ last.spec.kind = "scalar" /\ last.spec.str \in {"y", "1"})
    => /\ Cardinality(KeyIndex(kdict, ExpectedKey(last.key))) = 1
       /\ \A r \in ValuesAt(ExpectedKey(last.key)) :
             param_str(r) = Made(ExpectedKey(last.key) \o "=" \o last.spec.str)

\* C8, reached: FOO was set to "y" and the dict is rendered as CONFIG_FOO=y
C8_Witness ==
    /\ SetDone
    /\ last.key = "FOO"
    /\ last.spec = SpecScalar("y")
    /\ dict_str(kdict, 1) = Made("CONFIG_FOO=y\n")

\* C9: an entry set to null is stored under the normalised name with defined =
\* false and is rendered as `# CONFIG_FOO is not set`, with no error
C9_NullRendersNotSet ==
    (SetDone /\ last.spec.kind = "none")
    => /\ Cardinality(KeyIndex(kdict, ExpectedKey(last.key))) = 1
       /\ \A r \in ValuesAt(ExpectedKey(last.key)) :
             /\ ~r.defined
             /\ param_str(r).exc = ""
             /\ param_str(r).obj = "# " \o ExpectedKey(last.key) \o " is not set"

\* C10: every stored name is upper-case, starts with CONFIG_ and is left as it is
\* by another normalisation; the dict holds one value for a name; and an entry
\* set under config_foo, CONFIG_FOO, foo or FOO is stored under CONFIG_FOO
C10_NameNormalised ==
    /\ \A i \in DOMAIN kdict :
          /\ startswith(kdict[i].name, "CONFIG_")
          /\ \A j \in 1..Len(kdict[i].name) : ~IsLower(Char(kdict[i].name, j))
          /\ _set_name(kdict[i].name) = kdict[i].name
          /\ KeyIndex(kdict, kdict[i].name) = {i}
    /\ (SetDone /\ last.key \in {"config_foo", "CONFIG_FOO", "foo", "FOO"} /\ kwarnings = <<>>)
       => /\ kdict # <<>>
          /\ kdict[Len(kdict)].name = "CONFIG_FOO"
          /\ \A i \in DOMAIN kdict : kdict[i].name \in {"CONFIG_FOO", "CONFIG_A=B"}

\* C10, reached: entries were set under foo and then under config_foo, and the
\* dict holds the one key CONFIG_FOO
C10_Witness ==
    /\ SetDone
    /\ last.key = "config_foo"
    /\ nops = 2
    /\ Len(kdict) = 1
    /\ kdict[1].name = "CONFIG_FOO"
    /\ kwarnings # <<>>

\* the characters of [A-Za-z0-9_]
WordChars == LowerChars \cup UpperChars \cup DigitChars \cup {"_"}

\* the name without the prefix CONFIG_
Unprefixed(name) == SubSeq(name, Len("CONFIG_") + 1, Len(name))

\* C11: every record of the dict has a name that is CONFIG_ and then one or more
\* characters of [A-Za-z0-9_], and an entry set to a scalar under a raw name with
\* another character raises the construction error ValueError
C11_NameCharset ==
    /\ \A i \in DOMAIN kdict :
          /\ startswith(kdict[i].name, "CONFIG_")
          /\ Unprefixed(kdict[i].name) # ""
          /\ \A j \in 1..Len(Unprefixed(kdict[i].name)) :
                Char(Unprefixed(kdict[i].name), j) \in WordChars
    /\ (last.op = "set" /\ last.spec.kind = "scalar"
           /\ \E j \in 1..Len(last.key) : Char(last.key, j) \notin WordChars)
       => kpc = "raised" /\ kexc = "ValueError"

\* the characters of the string charset: letters, digits, / _ . , - = ( ) and space
ValueChars == LowerChars \cup UpperChars \cup DigitChars \cup {"/", "_", ".", ",", "-", "=", "(", ")", " "}

\* the whole string is one or more digits
AllDigits(s) == s # "" /\ \A i \in 1..Len(s) : IsDigit(Char(s, i))

\* the whole value is -?digits or one of y, n, m
WholeToken(s) ==
    \/ s \in {"y", "n", "m"}
    \/ AllDigits(s)
    \/ Len(s) >= 2 /\ Char(s, 1) = "-" /\ AllDigits(SubSeq(s, 2, Len(s)))

\* C12: an entry set under a valid name to a scalar that is neither a whole
\* numeric/tristate token nor made of the string charset only raises ValueError,
\* and the values "ok_value-1" and "y" are accepted and stored
C12_ValueValidation ==
    (last.op = "set" /\ last.spec.kind = "scalar" /\ _validate_name(last.key))
    => /\ (~WholeToken(last.spec.str)
              /\ \E j \in 1..Len(last.spec.str) : Char(last.spec.str, j) \notin ValueChars)
          => kpc = "raised" /\ kexc = "ValueError"
       /\ last.spec.str \in {"ok_value-1", "y"}
          => /\ kpc = "ready"
             /\ \E i \in DOMAIN kdict :
                   kdict[i].name = _set_name(last.key) /\ kdict[i].value = last.spec.str

\* the step is one self[key] = value
SetStep == kpc = "ready" /\ nops' = nops + 1 /\ last'.op = "set"

\* the raw name is made of [A-Za-z0-9_] only
WordName(key) == \A j \in 1..Len(key) : Char(key, j) \in WordChars

\* the expression is true against the fact table; it is not true when it names
\* a fact that the table does not have
ExprTrue(facts, e) ==
    IF e.has_in
    THEN /\ e.in_key \in DOMAIN facts
         /\ IF facts[e.in_key].kind = "list" THEN e.value \in Range(facts[e.in_key].list)
            ELSE contains(facts[e.in_key].str, e.value)
    ELSE /\ e.has_is
         /\ e.is_key \in DOMAIN facts
         /\ facts[e.is_key] = FactStr(e.value)

AnyTrue(facts, if_list) == \E i \in DOMAIN if_list : ExprTrue(facts, if_list[i])

\* C13: an entry with an `if` list, set under a valid name, is inserted with its
\* value if one of its expressions is true against the fact table, and else it is
\* dropped: the dict is left as it was
C13_InsertedIffSomeTrue ==
    [][(SetStep /\ last'.spec.has_if /\ WordName(last'.key))
       => IF AnyTrue(config_values, last'.spec.if_list)
          THEN /\ kpc' = "ready"
               /\ \E i \in DOMAIN kdict' :
                     /\ kdict'[i].name = _set_name(last'.key)
                     /\ kdict'[i].has_value
                     /\ kdict'[i].value = last'.spec.value
          ELSE kdict' = kdict]_vars

\* the expression names, with `is` or with `in`, a fact that the table does not have
NamesUnknownFact(facts, e) ==
    \/ e.has_is /\ e.is_key \notin DOMAIN facts
    \/ e.has_in /\ e.in_key \notin DOMAIN facts

\* C14: when an entry set under a valid name has an expression that names an
\* unknown fact, no error leaves the set operation, that expression counts as
\* false, and the entry is still inserted if another of its expressions is true
C14_UnknownFactIsFalse ==
    [][(SetStep /\ last'.spec.has_if /\ WordName(last'.key)
           /\ \E i \in DOMAIN last'.spec.if_list :
                 NamesUnknownFact(config_values, last'.spec.if_list[i]))
       => /\ kpc' = "ready"
          /\ kexc' = ""
          /\ AnyTrue(config_values, last'.spec.if_list)
             => \E i \in DOMAIN kdict' : kdict'[i].name = _set_name(last'.key)]_vars

\* C15: an entry of a batch that fails the validation of its name or of its
\* value is skipped alone: nothing is raised, so that the entries after it are
\* resolved, the dict is left as it was, and a warning names the entry
C15_BadEntryIsolated ==
    [][(SetStep /\ last'.spec.kind = "scalar"
           /\ (~_validate_name(last'.key) \/ ~_validate_value(last'.spec.str)))
       => /\ kpc' = "ready"
          /\ kexc' = ""
          /\ kdict' = kdict
          /\ \E i \in DOMAIN kwarnings' : contains(kwarnings'[i], last'.key)]_vars

\* the record the entry of the step constructs
Constructed == _gen_config_obj_from_dict(config_values, last'.key, last'.spec)

\* C16: the dict holds one record for a name; after an entry is constructed the
\* record of its name is the one of this entry, the other records are the ones
\* there were, and a warning is logged if the name was in the dict already
C16_LastWriteWins ==
    [][(SetStep /\ Constructed.exc = "" /\ ~Constructed.none)
       => /\ kpc' = "ready"
          /\ \A i, j \in DOMAIN kdict' : kdict'[i].name = kdict'[j].name => i = j
          /\ \E i \in DOMAIN kdict' : kdict'[i] = Constructed.obj
          /\ \A i \in DOMAIN kdict : kdict[i].name # Constructed.obj.name => kdict'[i] = kdict[i]
          /\ KeyIndex(kdict, Constructed.obj.name) # {} => kwarnings' # <<>>]_vars

\* C17: a defined record of the dict is rendered, after the comment line of its
\* description, as NAME=VALUE with the value bare when the whole value is -?digits
\* or one of y, n, m, and in double quotes when it is any other value
C17_QuotedUnlessToken ==
    \A i \in DOMAIN kdict :
        (kdict[i].has_value /\ kdict[i].defined)
        => param_str(kdict[i]) =
              Made((IF kdict[i].has_description THEN "# " \o kdict[i].description \o "\n" ELSE "")
                   \o kdict[i].name \o "="
                   \o (IF WholeToken(kdict[i].value) THEN kdict[i].value
                       ELSE "\"" \o kdict[i].value \o "\""))

\* C18: once a top-level key of the config file other than `templates` is loaded,
\* the dict holds a record under the normalised name of that key
C18_TopLevelKeyResolved ==
    (last.op = "load" /\ kpc = "ready")
    => \E i \in DOMAIN kdict : kdict[i].name = _set_name(last.key)

(***************************************************************************)
(* Properties of help blocks, checked under Spec.                          *)
(***************************************************************************)

\* the line starts with a variable type keyword or with its def_ form
IsTypeLine(l) ==
    \E ty \in {"bool", "tristate", "int", "string"} :
        MatchKeyword(ty, lstrip(rstrip(l))) \/ MatchKeyword("def_" \o ty, lstrip(rstrip(l)))

\* the line is source "<path>"
IsSourceLine(l) == startswith(lstrip(rstrip(l)), "source \"") /\ endswith(rstrip(l), "\"")

\* a line that ends a help block
IsSentinel(l) == IsSourceLine(l) \/ IsBlockOpener(l) \/ IsScopeCloser(l) \/ IsTypeLine(l)

\* the help body of the entry `name` of the table `mode` is the one of `before`, if
\* the entry is still there with a help body
HelpKept(before, after, mode, name) ==
    (name \in DOMAIN after.tabs[mode] /\ "help" \in DOMAIN after.tabs[mode][name])
    => after.tabs[mode][name]["help"] = before.tabs[mode][name]["help"]

\* C19: in help mode a source line, a block opener, a scope closer or a variable
\* type line ends the help block: no error is raised, help mode is off after the
\* line, and the line is not added to the help body of the current entry
C19_SentinelEndsHelp ==
    [][(ParseStep /\ Top.help_mode /\ HasHelpBody(Top) /\ IsSentinel(line'))
       => /\ pc' = "parsing"
          /\ ~After.help_mode
          /\ HelpKept(Top, After, Top.mode, Top.current[Top.mode])]_vars

\* parse_line of the line of the step by the object on top of the stack, if its
\* help mode were off
WithHelpOff == parse_line([Top EXCEPT !.help_mode = FALSE], line')

\* C20: an opener or a closer read in help mode is processed as it is with help
\* mode off: it raises when that raises, and else it leaves the same mode, the
\* same mode history, the same current entries and the same tables
C20_TerminatorReprocessed ==
    [][(ParseStep /\ Top.help_mode /\ (IsBlockOpener(line') \/ IsScopeCloser(line')))
       => IF WithHelpOff.exc # "" THEN pc' = "raised" /\ exc' = WithHelpOff.exc
          ELSE /\ pc' = "parsing"
               /\ After.has_mode = WithHelpOff.self.has_mode
               /\ After.mode = WithHelpOff.self.mode
               /\ After.mode_history = WithHelpOff.self.mode_history
               /\ After.current = WithHelpOff.self.current
               /\ After.tabs = WithHelpOff.self.tabs]_vars

(***************************************************************************)
(* Properties of the type lines and of the select lines, checked under     *)
(* Spec.                                                                   *)
(***************************************************************************)

\* the type keyword of a type line: its first word, without def_
TypeKeyword(l) ==
    LET w == split1(lstrip(rstrip(l)), " ")[1]
    IN  IF startswith(w, "def_") THEN SubSeq(w, Len("def_") + 1, Len(w)) ELSE w

\* a config or menuconfig entry is current
ParameterIsCurrent(self) ==
    /\ self.has_mode
    /\ self.mode \in {"config", "menuconfig"}
    /\ CurrentEntryExc(self) = ""

\* C21: a type line read while a config or menuconfig entry is current sets the
\* type of that entry to the keyword of the line, for the forms <type> "<text>",
\* <type> and def_<type> <value>, and the first form sets the prompt to the text
C21_TypeLineSetsType ==
    [][(ParseStep /\ ParameterIsCurrent(Top) /\ IsTypeLine(line'))
       => /\ pc' = "parsing"
          /\ After.mode = Top.mode
          /\ After.current = Top.current
          /\ "type" \in DOMAIN CurrentEntry(After)
          /\ CurrentEntry(After)["type"] = TypeKeyword(line')
          /\ lstrip(rstrip(line')) = "bool \"Prompt\""
             => CurrentEntry(After)["prompt"] = "Prompt"]_vars

\* the line is `select NAME` or `select NAME if COND`
IsSelectLine(l) == MatchKeyword("select", lstrip(rstrip(l))) /\ lstrip(rstrip(l)) # "select"

\* the words of a select line
SelectWords(l) == split_ws(lstrip(rstrip(l)))

\* C22: a select line read while a config or menuconfig entry is current raises
\* nothing; `select NAME` puts NAME in the select set of that entry, and
\* `select NAME if COND` logs a notice that says not implemented and no report of
\* an unknown line
C22_SelectRecorded ==
    [][(ParseStep /\ ParameterIsCurrent(Top) /\ IsSelectLine(line'))
       => /\ pc' = "parsing"
          /\ After.current = Top.current
          /\ IF Len(SelectWords(line')) = 2
             THEN /\ "select" \in DOMAIN CurrentEntry(After)
                  /\ \E n \in DOMAIN CurrentEntry(After)["select"] : contains(n, SelectWords(line')[2])
             ELSE /\ \E i \in DOMAIN warnings' : contains(warnings'[i], "not implemented")
                  /\ \A i \in DOMAIN warnings' : ~contains(warnings'[i], "Unknown line")]_vars

====
